---- MODULE Spec2Model ----
(***************************************************************************)
(* fastapi-errors: typed errors for request/response exchanges and for     *)
(* WebSocket connections, the two handlers that turn them into a response  *)
(* or a connection closure, and register_errors, which binds error types   *)
(* to handlers in the host application's exception-handler table.          *)
(*                                                                         *)
(* Three specifications share the variables:                               *)
(*   SpecRegister  one call of register_errors on an application,          *)
(*   SpecHandle    handlers invoked directly with arbitrary exceptions,    *)
(*                 several handlings in flight on one event loop,          *)
(*   SpecApp       the example application of tests/test_fastapi.py.       *)
(***************************************************************************)
EXTENDS Naturals, Sequences, FiniteSets

\* ------------------------------------------------------------------ bounds

\* Longest error_classes collection handed to register_errors.
MaxClasses == 3

\* Number of handler invocations that may be in flight at once.
MaxHandlings == 2

\* ------------------------------------------------------- program constants

ERROR_TYPE_HEADER == "X-Error-Type"

HTTP_200_OK == 200
HTTP_400_BAD_REQUEST == 400
HTTP_401_UNAUTHORIZED == 401
HTTP_404_NOT_FOUND == 404

\* The backquote character of the messages' f-strings.
Backtick == "(backquote)"

\* Optional[T]: Python's None is the empty sequence, a value v is <<v>>.
None == <<>>
Some(v) == <<v>>

\* ------------------------------------------------- Python and JSON values

\* The Python values of the error contexts: a str, a tuple of values, and an
\* object the JSON encoder has no encoding for (a set, a datetime, ...).
Str(s) == <<"str", s>>
Tuple(items) == <<"tuple", items>>
Object(n) == <<"object", n>>

\* Whether json.dumps can encode the value.
RECURSIVE Serializable(_)
Serializable(v) ==
    CASE v[1] = "str" -> TRUE
      [] v[1] = "tuple" -> \A i \in 1..Len(v[2]) : Serializable(v[2][i])
      [] OTHER -> FALSE

\* The JSON value json.dumps encodes a serializable value as: a str as a
\* string, a tuple as an array.
RECURSIVE JsonOfValue(_)
JsonOfValue(v) ==
    CASE v[1] = "str" -> <<"string", v[2]>>
      [] v[1] = "tuple" -> <<"array", [i \in 1..Len(v[2]) |-> JsonOfValue(v[2][i])]>>

\* A dict with str keys as a JSON object.
JsonOfDict(d) == [k \in DOMAIN d |-> JsonOfValue(d[k])]

\* The Python value json.loads decodes a JSON value to: an array becomes a list.
RECURSIVE PyOfJson(_)
PyOfJson(j) ==
    CASE j[1] = "string" -> Str(j[2])
      [] j[1] = "array" -> <<"list", [i \in 1..Len(j[2]) |-> PyOfJson(j[2][i])]>>

\* ------------------------------------------------------------ class table

\* The two family roots, as the code names them (BaseHTTPError.__name__, ...).
BaseHTTPErrorName == "BaseHTTPError"
BaseWebSocketErrorName == "BaseWebSocketError"

\* The request-family classes the test module declares.
TestHTTPClasses == {"AuthorizationError", "InvalidRequestError", "NoUserFoundError"}

\* Further request-family subclasses an application may declare: one whose
\* overridden hook raises, one whose overridden hook never completes.
UserHTTPClasses == {"TeapotError", "SlowError"}

\* Connection-family subclasses an application may declare: with and without
\* a declared reason, and with hooks that return, raise or never complete.
UserWSClasses == {"WSPolicyError", "WSGoingAway", "WSInternalError", "WSStuckError"}

\* Exception types of neither family.
OtherClasses == {"ValueError", "KeyError"}

HTTPClasses == TestHTTPClasses \cup UserHTTPClasses
AllClasses ==
    HTTPClasses \cup UserWSClasses \cup OtherClasses
        \cup {BaseHTTPErrorName, BaseWebSocketErrorName, "Exception"}

\* The direct base class of each class (single inheritance from one root).
BaseOf(c) ==
    IF c \in HTTPClasses THEN BaseHTTPErrorName
    ELSE IF c \in UserWSClasses THEN BaseWebSocketErrorName
    ELSE IF c = "Exception" THEN "BaseException"
    ELSE "Exception"

\* issubclass(c, root): walk the base-class chain of c up to Exception.
RECURSIVE IsSubclass(_, _)
IsSubclass(c, root) ==
    IF c = root THEN TRUE
    ELSE IF c \notin AllClasses \/ c = "Exception" THEN FALSE
    ELSE IsSubclass(BaseOf(c), root)

\* status_code of a concrete request-family class.
StatusCodeOf(c) ==
    CASE c = "AuthorizationError" -> HTTP_401_UNAUTHORIZED
      [] c = "InvalidRequestError" -> HTTP_400_BAD_REQUEST
      [] c = "NoUserFoundError" -> HTTP_404_NOT_FOUND
      [] c = "TeapotError" -> 418
      [] c = "SlowError" -> 503

\* message of a concrete request-family class.
MessageOf(c) ==
    CASE c = "AuthorizationError" -> "Failed to authorize"
      [] c = "InvalidRequestError" -> "Invalid request"
      [] c = "NoUserFoundError" -> "No such user"
      [] c = "TeapotError" -> "I am a teapot"
      [] c = "SlowError" -> "Service unavailable"

\* code of a concrete connection-family class.
CodeOf(c) ==
    CASE c = "WSPolicyError" -> 1008
      [] c = "WSGoingAway" -> 1001
      [] c = "WSInternalError" -> 1011
      [] c = "WSStuckError" -> 1000

\* reason of a connection-family class: the class attribute, None by default.
ReasonOf(c) ==
    CASE c = "WSPolicyError" -> Some("policy violation")
      [] c = "WSInternalError" -> Some("internal error")
      [] OTHER -> None

\* What the class's hook coroutine does when awaited:
\*   "default"  the base classes' hook: returns at once,
\*   "logs"     AuthorizationError's override: logs its message, then returns,
\*   "raises"   an override that raises,
\*   "hangs"    an override that never completes.
HookOf(c) ==
    CASE c = "AuthorizationError" -> "logs"
      [] c \in {"TeapotError", "WSInternalError"} -> "raises"
      [] c \in {"SlowError", "WSStuckError"} -> "hangs"
      [] OTHER -> "default"

\* ------------------------------------------------------------- variables

Handlings == 1..MaxHandlings

VARIABLES
    \* register_errors
    handlers,       \* the host's table: the add_exception_handler calls, in order
    error_classes,  \* the collection handed to register_errors
    regPc,          \* "idle" | "loop" | "returned" | "raised"
    regIdx,         \* number of elements of error_classes the loop has consumed
    regError,       \* the TypeError's message once raised, else <<>>
    created,        \* number of handler functions the factories have built
    \* handle_error, one invocation per handling h
    pc,             \* "idle" | "hook" (suspended at the await) | "returned" | "raised"
    handler,        \* which handle_error runs: "http" | "ws" ("none" before, "route"
                    \* when the route returned without an error)
    error,          \* the exception instance handed to handle_error
    request,        \* the request / websocket handed to handle_error
    hookArgs,       \* the arguments of each invocation of error.hook so far
    trace,          \* the steps of the handling, in order
    outcome,        \* what handle_error returned or raised
    log,            \* the records the hooks logged (shared by all handlings)
    kwargs,         \* the keyword arguments the error of h was constructed with
    \* the example application
    appReq          \* the token header and user path segment of request h

regVars == <<handlers, error_classes, regPc, regIdx, regError, created>>
handleVars == <<pc, handler, error, request, hookArgs, trace, outcome, log>>
appVars == <<kwargs, appReq>>

vars == <<regVars, handleVars, appVars>>

\* ------------------------------------------------------- handler factories

\* create_http_error_handler(): a new closure each call.
create_http_error_handler(n) == [kind |-> "http", id |-> n]

\* create_websocket_error_handler(): a new closure each call.
create_websocket_error_handler(n) == [kind |-> "ws", id |-> n]

\* --------------------------------------------------------- register_errors

\* The message with one family only, as the handlers word theirs.
RegisterTypeErrorMessage_one_family(error_cls) ==
    <<"Exception ", Backtick, error_cls, Backtick, " should be derived from ",
      Backtick, BaseHTTPErrorName, Backtick>>

\* The message of the TypeError register_errors raises for error_cls.
RegisterTypeErrorMessage(error_cls) ==
    <<"Exception ", Backtick, error_cls, " should be derived from either ",
      Backtick, BaseHTTPErrorName, Backtick, " or ",
      Backtick, BaseWebSocketErrorName, Backtick>>

\* A registration that skips a class the table already holds.
add_exception_handler_dedup(app, error_cls, fn) ==
    IF \E i \in 1..Len(app) : app[i].cls = error_cls THEN app
    ELSE Append(app, [cls |-> error_cls, handler |-> fn])

\* app.add_exception_handler(error_cls, handler), as register_errors uses it:
\* one more entry in the host's table.
add_exception_handler(app, error_cls, fn) ==
    Append(app, [cls |-> error_cls, handler |-> fn])

\* Classes register_errors is handed here.
RegClasses ==
    {"AuthorizationError", "InvalidRequestError", "WSPolicyError",
     "ValueError", "KeyError", BaseHTTPErrorName}

RegInputs == UNION {[1..n -> RegClasses] : n \in 0..MaxClasses}

\* A handler the application registered itself before calling register_errors.
HostEntry == [cls |-> "ValueError", handler |-> [kind |-> "host", id |-> 0]]

\* register_errors(app, classes) is called.
RegisterCall(classes) ==
    /\ regPc = "idle"
    /\ error_classes' = classes
    /\ regPc' = "loop"
    /\ regIdx' = 0
    /\ UNCHANGED <<handlers, regError, created, handleVars, appVars>>

\* The branch of the loop body for a request-family class.
RegisterHTTP(error_cls) ==
    /\ handlers' = add_exception_handler(handlers, error_cls,
                                         create_http_error_handler(created + 1))
    /\ created' = created + 1
    /\ regIdx' = regIdx + 1
    /\ UNCHANGED <<regPc, regError>>

\* The branch of the loop body for a connection-family class.
RegisterWS(error_cls) ==
    /\ handlers' = add_exception_handler(handlers, error_cls,
                                         create_websocket_error_handler(created + 1))
    /\ created' = created + 1
    /\ regIdx' = regIdx + 1
    /\ UNCHANGED <<regPc, regError>>

\* A rejection that first takes back the handlers this call added.
RegisterReject_rollback(error_cls) ==
    /\ regPc' = "raised"
    /\ regError' = RegisterTypeErrorMessage(error_cls)
    /\ regIdx' = regIdx + 1
    /\ handlers' = SubSeq(handlers, 1, Len(handlers) - created)
    /\ UNCHANGED created

\* The else branch: the class belongs to neither family.
RegisterReject(error_cls) ==
    /\ regPc' = "raised"
    /\ regError' = RegisterTypeErrorMessage(error_cls)
    /\ regIdx' = regIdx + 1
    /\ UNCHANGED <<handlers, created>>

\* One iteration of the for loop of register_errors.
RegisterStep ==
    /\ regPc = "loop"
    /\ regIdx < Len(error_classes)
    /\ LET error_cls == error_classes[regIdx + 1] IN
         IF IsSubclass(error_cls, BaseHTTPErrorName) THEN RegisterHTTP(error_cls)
         ELSE IF IsSubclass(error_cls, BaseWebSocketErrorName) THEN RegisterWS(error_cls)
         ELSE RegisterReject(error_cls)
    /\ UNCHANGED <<error_classes, handleVars, appVars>>

\* The loop is exhausted: register_errors returns None.
RegisterReturn ==
    /\ regPc = "loop"
    /\ regIdx = Len(error_classes)
    /\ regPc' = "returned"
    /\ UNCHANGED <<handlers, error_classes, regIdx, regError, created, handleVars, appVars>>

\* ------------------------------------------------------------ error objects

\* BaseHTTPError.__init__(**context): the instance keeps its class and the
\* keyword arguments, verbatim.
BaseHTTPError(cls, context) == [cls |-> cls, context |-> context]

\* An exception with no context attribute (BaseWebSocketError, ValueError).
PlainError(cls) == [cls |-> cls]

NoError == [cls |-> "none"]

\* error.name: the name of the instance's concrete class.
name(e) == e.cls

\* isinstance(e, root).
IsInstance(e, root) == IsSubclass(e.cls, root)

\* BaseHTTPError.to_dict.
to_dict(e) == [message |-> Str(MessageOf(e.cls)), context |-> e.context]

\* Whether JSONResponse can render the content to_response hands it.
Renderable(content) == \A k \in DOMAIN content.context : Serializable(content.context[k])

\* JSONResponse.render: the content as a JSON document.
JsonBody(content) ==
    [message |-> JsonOfValue(content.message), context |-> JsonOfDict(content.context)]

\* The TypeError json.dumps raises inside JSONResponse for a value it cannot encode.
JsonTypeErrorMessage == <<"Object of type ", "object", " is not JSON serializable">>

\* to_response builds a response that answers 200 whatever the class declares.
to_response_status_200(e, r) ==
    [body |-> JsonBody(to_dict(e)),
     status_code |-> HTTP_200_OK,
     headers |-> {<<ERROR_TYPE_HEADER, name(e)>>}]

\* BaseHTTPError.to_response: JSONResponse(to_dict(), status_code, headers),
\* for a content JSONResponse can render.
to_response(e, r) ==
    [body |-> JsonBody(to_dict(e)),
     status_code |-> StatusCodeOf(e.cls),
     headers |-> {<<ERROR_TYPE_HEADER, name(e)>>}]

\* The closure signal without the reason.
WebSocketException_no_reason(e) ==
    [type |-> "WebSocketException", code |-> CodeOf(e.cls), reason |-> None]

\* WebSocketException(code=error.code, reason=error.reason).
WebSocketException(e) ==
    [type |-> "WebSocketException", code |-> CodeOf(e.cls), reason |-> ReasonOf(e.cls)]

\* The message of the TypeError a handler raises for an error outside its family.
HandlerTypeErrorMessage(e, root) ==
    <<"Exception ", Backtick, e.cls, Backtick, " should be derived from ",
      Backtick, root, Backtick>>

NoOutcome == [type |-> "none"]
Returned(response) == [type |-> "response", response |-> response]
TypeError(message) == [type |-> "TypeError", message |-> message]
\* Whatever exception an overriding hook raises.
HookError == [type |-> "HookError"]

\* The family root each handle_error checks against.
FamilyOf(kind) == IF kind = "http" THEN BaseHTTPErrorName ELSE BaseWebSocketErrorName

\* The request or websocket object of handling h.
Conn(h) == <<"conn", h>>

\* -------------------------------------------------------------- handle_error

\* A check that lets every exception through.
IsOfFamily_any(e, kind) == IsInstance(e, "Exception")

\* The isinstance check at the head of each handle_error.
IsOfFamily(e, kind) == IsInstance(e, FamilyOf(kind))

\* The records error.hook writes when its body runs (before it first suspends).
HookLogs(e) == IF HookOf(e.cls) = "logs" THEN <<MessageOf(e.cls)>> ELSE <<>>

\* handle_error, error outside the family: raise TypeError.
HandleMismatch(h, kind, r, e) ==
    /\ pc' = [pc EXCEPT ![h] = "raised"]
    /\ handler' = [handler EXCEPT ![h] = kind]
    /\ error' = [error EXCEPT ![h] = e]
    /\ request' = [request EXCEPT ![h] = Some(r)]
    /\ trace' = [trace EXCEPT ![h] = <<"typecheck", "TypeError">>]
    /\ outcome' = [outcome EXCEPT ![h] = TypeError(HandlerTypeErrorMessage(e, FamilyOf(kind)))]
    /\ UNCHANGED <<hookArgs, log>>

\* handle_error that performs its terminal action without awaiting the hook.
HandleAwaitHook_skipped(h, kind, r, e) ==
    /\ kind = "http" => Renderable(to_dict(e))
    /\ pc' = [pc EXCEPT ![h] = IF kind = "http" THEN "returned" ELSE "raised"]
    /\ handler' = [handler EXCEPT ![h] = kind]
    /\ error' = [error EXCEPT ![h] = e]
    /\ request' = [request EXCEPT ![h] = Some(r)]
    /\ trace' = [trace EXCEPT ![h] = <<"typecheck", "terminal">>]
    /\ outcome' = [outcome EXCEPT ![h] =
                     IF kind = "http" THEN Returned(to_response(e, r))
                     ELSE WebSocketException(e)]
    /\ UNCHANGED <<hookArgs, log>>

\* handle_error, error of the family: call error.hook(request) and await it.
\* The hook's body runs up to its first suspension; the await is where other
\* handlings may run.
HandleAwaitHook(h, kind, r, e) ==
    /\ pc' = [pc EXCEPT ![h] = "hook"]
    /\ handler' = [handler EXCEPT ![h] = kind]
    /\ error' = [error EXCEPT ![h] = e]
    /\ request' = [request EXCEPT ![h] = Some(r)]
    /\ hookArgs' = [hookArgs EXCEPT ![h] = Append(@, r)]
    /\ trace' = [trace EXCEPT ![h] = <<"typecheck", "hook">>]
    /\ log' = log \o HookLogs(e)
    /\ UNCHANGED outcome

\* handle_error(request, error) of the request (kind "http") or connection
\* (kind "ws") handler, from its call to its first suspension.
HandleStart(h, kind, r, e) ==
    /\ pc[h] = "idle"
    /\ IF IsOfFamily(e, kind)
         THEN HandleAwaitHook(h, kind, r, e)
         ELSE HandleMismatch(h, kind, r, e)

\* The error object a resumed handle_error works on, were it kept in one slot
\* of the handler function, shared by its invocations: the error of the first
\* suspended handling by that handler.
HandledError_shared(h) ==
    error[CHOOSE g \in Handlings :
            /\ pc[g] = "hook" /\ handler[g] = handler[h]
            /\ \A f \in Handlings : (pc[f] = "hook" /\ handler[f] = handler[h]) => g <= f]

\* The error object a resumed handle_error works on: its own parameter.
HandledError(h) == error[h]

\* The terminal action that swallows the closure and returns None.
TerminalWS_returns(h) ==
    /\ pc' = [pc EXCEPT ![h] = "returned"]
    /\ outcome' = [outcome EXCEPT ![h] = Returned(None)]

\* The request handler's terminal action: return error.to_response(request).
\* JSONResponse renders its content when constructed, and the TypeError of a
\* value it cannot encode leaves to_response and the handler.
TerminalHTTP(h) ==
    IF Renderable(to_dict(HandledError(h)))
    THEN /\ pc' = [pc EXCEPT ![h] = "returned"]
         /\ outcome' = [outcome EXCEPT ![h] =
                          Returned(to_response(HandledError(h), request[h][1]))]
    ELSE /\ pc' = [pc EXCEPT ![h] = "raised"]
         /\ outcome' = [outcome EXCEPT ![h] = TypeError(JsonTypeErrorMessage)]

\* The connection handler's terminal action: raise WebSocketException.
TerminalWS(h) ==
    /\ pc' = [pc EXCEPT ![h] = "raised"]
    /\ outcome' = [outcome EXCEPT ![h] = WebSocketException(HandledError(h))]

\* The awaited hook returns: handle_error resumes and runs to its end.
HookReturns(h) ==
    /\ pc[h] = "hook"
    /\ HookOf(error[h].cls) \in {"default", "logs"}
    /\ trace' = [trace EXCEPT ![h] = @ \o <<"hook-returned", "terminal">>]
    /\ IF handler[h] = "http" THEN TerminalHTTP(h) ELSE TerminalWS(h)
    /\ UNCHANGED <<handler, error, request, hookArgs, log>>

\* The awaited hook raises: the exception leaves handle_error, which has no
\* try around the await.
HookRaises(h) ==
    /\ pc[h] = "hook"
    /\ HookOf(error[h].cls) = "raises"
    /\ pc' = [pc EXCEPT ![h] = "raised"]
    /\ outcome' = [outcome EXCEPT ![h] = HookError]
    /\ trace' = [trace EXCEPT ![h] = @ \o <<"hook-raised">>]
    /\ UNCHANGED <<handler, error, request, hookArgs, log>>

\* Keyword arguments the errors are constructed with.
Contexts ==
    {<<>>,
     [reason |-> Str("no token"), token |-> Str("?")],
     [tried |-> Tuple(<<Str("a"), Str("b")>>)],
     [session |-> Object("session")]}

\* The exceptions handed to the handlers, each as its constructor call:
\* C(**kwargs) for a request-family class, C() otherwise.
HandleHTTPClasses == {"AuthorizationError", "InvalidRequestError", "TeapotError", "SlowError"}
Constructors ==
    {[cls |-> c, kwargs |-> Some(k)] : c \in HandleHTTPClasses, k \in Contexts}
        \cup {[cls |-> c, kwargs |-> None] : c \in UserWSClasses \cup {"ValueError"}}

\* The instance a constructor call yields.
Construct(ctor) ==
    IF ctor.kwargs = None THEN PlainError(ctor.cls)
    ELSE BaseHTTPError(ctor.cls, ctor.kwargs[1])

InitHandle ==
    /\ pc = [h \in Handlings |-> "idle"]
    /\ handler = [h \in Handlings |-> "none"]
    /\ error = [h \in Handlings |-> NoError]
    /\ request = [h \in Handlings |-> None]
    /\ hookArgs = [h \in Handlings |-> <<>>]
    /\ trace = [h \in Handlings |-> <<>>]
    /\ outcome = [h \in Handlings |-> NoOutcome]
    /\ log = <<>>

\* ------------------------------------------------- the example application

\* "TOKEN", the one value of the token header that authorizes.
ValidToken == "TOKEN"

\* The string "user" as its characters.
UserWord == <<"u", "s", "e", "r">>

\* sub in s, for strings given as their characters.
IsSubstring(sub, s) ==
    \E i \in 1..(Len(s) + 1) :
        /\ i + Len(sub) - 1 <= Len(s)
        /\ SubSeq(s, i, i + Len(sub) - 1) = sub

\* authorize(token): the error it raises, NoError when it returns.
authorize(token) ==
    IF token = None THEN BaseHTTPError("AuthorizationError", [reason |-> Str("no token")])
    ELSE IF token[1] # ValidToken
        THEN BaseHTTPError("AuthorizationError",
                           [reason |-> Str("no token"), token |-> Str(token[1])])
    ELSE NoError

\* get_user(user): the error it raises, NoError when it returns {"user": user}.
get_user(user) ==
    IF user = None THEN BaseHTTPError("InvalidRequestError", [reason |-> Str("no user")])
    ELSE IF ~IsSubstring(UserWord, user[1])
        THEN BaseHTTPError("NoUserFoundError", [user |-> Str(user[1])])
    ELSE NoError

\* The error a request ends in, were the route to run before its dependency.
RouteError_route_first(token, user) ==
    IF get_user(user).cls # "none" THEN get_user(user) ELSE authorize(token)

\* The error a request to the router ends in: the router's dependency
\* authorize runs first, the route get_user only when it returned.
RouteError(token, user) ==
    IF authorize(token).cls # "none" THEN authorize(token) ELSE get_user(user)

\* The classes of the method resolution order of cls, most derived first.
RECURSIVE Mro(_)
Mro(cls) == IF cls \in AllClasses /\ cls # "Exception" THEN <<cls>> \o Mro(BaseOf(cls)) ELSE <<cls>>

\* The handler the host runs for an exception of class cls: the latest handler
\* added for the first class of its resolution order that has one, None if none.
LookupHandler(table, cls) ==
    LET mro == Mro(cls)
        has(c) == \E i \in 1..Len(table) : table[i].cls = c
        hit == {i \in 1..Len(mro) : has(mro[i])}
    IN IF hit = {} THEN None
       ELSE LET first == CHOOSE i \in hit : \A j \in hit : i <= j
                last == CHOOSE i \in 1..Len(table) :
                            /\ table[i].cls = mro[first]
                            /\ \A j \in 1..Len(table) : table[j].cls = mro[first] => j <= i
            IN Some(table[last].handler)

\* The route returned: the host answers 200 with its value, {"user": user},
\* as the JSON body.
RouteReturns(h, user) ==
    /\ pc' = [pc EXCEPT ![h] = "returned"]
    /\ handler' = [handler EXCEPT ![h] = "route"]
    /\ trace' = [trace EXCEPT ![h] = <<"route">>]
    /\ outcome' = [outcome EXCEPT ![h] =
                     Returned([body |-> JsonOfDict([user |-> Str(user[1])]),
                               status_code |-> HTTP_200_OK,
                               headers |-> {}])]
    /\ UNCHANGED <<error, request, hookArgs, log>>

\* No handler is registered for the error: it leaves the application.
Unhandled(h, e) ==
    /\ pc' = [pc EXCEPT ![h] = "raised"]
    /\ error' = [error EXCEPT ![h] = e]
    /\ trace' = [trace EXCEPT ![h] = <<"unhandled">>]
    /\ outcome' = [outcome EXCEPT ![h] = [type |-> "Unhandled"]]
    /\ UNCHANGED <<handler, request, hookArgs, log>>

\* The application serves GET / or GET /{user} with an optional token header.
AppRequest(h, token, user) ==
    /\ regPc = "returned"
    /\ pc[h] = "idle"
    /\ appReq' = [appReq EXCEPT ![h] = Some([token |-> token, user |-> user])]
    /\ LET e == RouteError(token, user) IN
         IF e.cls = "none" THEN RouteReturns(h, user)
         ELSE LET fn == LookupHandler(handlers, e.cls) IN
              IF fn = None THEN Unhandled(h, e)
              ELSE HandleStart(h, fn[1].kind, Conn(h), e)
    /\ UNCHANGED <<regVars, kwargs>>

\* The classes the app fixture registers.
FixtureClasses == <<"AuthorizationError", "InvalidRequestError", "NoUserFoundError">>

Tokens == {None, Some("?"), Some(ValidToken)}
Users ==
    {None,
     Some(<<"1">>),
     Some(<<"u", "s", "e">>),
     Some(<<"u", "s", "e", "r", "-", "1">>),
     Some(<<"x", "u", "s", "e", "r">>)}

InitRegisterVars ==
    /\ error_classes = <<>>
    /\ regPc = "idle"
    /\ regIdx = 0
    /\ regError = <<>>
    /\ created = 0

InitApp ==
    /\ kwargs = [h \in Handlings |-> None]
    /\ appReq = [h \in Handlings |-> None]

\* ------------------------------------------------------------ SpecRegister

InitRegister ==
    /\ handlers \in {<<>>, <<HostEntry>>}
    /\ InitRegisterVars
    /\ InitHandle
    /\ InitApp

NextRegister ==
    \/ \E classes \in RegInputs : RegisterCall(classes)
    \/ RegisterStep
    \/ RegisterReturn

SpecRegister == InitRegister /\ [][NextRegister]_vars

\* -------------------------------------------------------------- SpecHandle

\* An error is constructed and the host (or any caller) invokes a handler
\* with it.
Invoke(h, kind, ctor) ==
    /\ HandleStart(h, kind, Conn(h), Construct(ctor))
    /\ kwargs' = [kwargs EXCEPT ![h] = ctor.kwargs]
    /\ UNCHANGED <<regVars, appReq>>

Resume(h) ==
    /\ HookReturns(h)
    /\ UNCHANGED <<regVars, appVars>>

Fail(h) ==
    /\ HookRaises(h)
    /\ UNCHANGED <<regVars, appVars>>

InitHandleSpec ==
    /\ handlers = <<>>
    /\ InitRegisterVars
    /\ InitHandle
    /\ InitApp

NextHandle ==
    \/ \E h \in Handlings, kind \in {"http", "ws"}, ctor \in Constructors :
          Invoke(h, kind, ctor)
    \/ \E h \in Handlings : Resume(h)
    \/ \E h \in Handlings : Fail(h)

SpecHandle == InitHandleSpec /\ [][NextHandle]_vars

\* The event loop resumes a handle_error whose awaited hook has completed.
FairHandle == \A h \in Handlings : WF_vars(Resume(h)) /\ WF_vars(Fail(h))

SpecHandleFair == SpecHandle /\ FairHandle

\* ----------------------------------------------------------------- SpecApp

\* The fixture builds a fresh application and registers the three classes.
InitAppSpec ==
    /\ handlers = <<>>
    /\ InitRegisterVars
    /\ InitHandle
    /\ InitApp

NextApp ==
    \/ RegisterCall(FixtureClasses)
    \/ RegisterStep
    \/ RegisterReturn
    \/ \E h \in Handlings, token \in Tokens, user \in Users : AppRequest(h, token, user)
    \/ \E h \in Handlings : Resume(h)

SpecApp == InitAppSpec /\ [][NextApp]_vars

\* ================================================================ claims

\* ------------------------------------------------ register_errors (SpecRegister)

IsFamilyClass(c) == IsSubclass(c, BaseHTTPErrorName) \/ IsSubclass(c, BaseWebSocketErrorName)

\* The kind of handler the claims expect for a class of a family.
ExpectedKind(c) == IF IsSubclass(c, BaseHTTPErrorName) THEN "http" ELSE "ws"

AllInFamilies == \A i \in 1..Len(error_classes) : IsFamilyClass(error_classes[i])

\* The entries the table held before register_errors was called.
PreLen == IF Len(handlers) > 0 /\ handlers[1] = HostEntry THEN 1 ELSE 0

\* The entries added since.
Added == [i \in 1..(Len(handlers) - PreLen) |-> handlers[PreLen + i]]

\* The position of the first class of the input that is of neither family.
FirstBad ==
    CHOOSE k \in 1..Len(error_classes) :
        /\ ~IsFamilyClass(error_classes[k])
        /\ \A j \in 1..(k - 1) : IsFamilyClass(error_classes[j])

Names(message, word) == \E i \in 1..Len(message) : message[i] = word

\* C4: once register_errors has ended on an input that holds a type of neither
\* family, it has raised a TypeError (it has not returned), and the message
\* names the offending type, BaseHTTPError and BaseWebSocketError.
C4_RejectsForeignType ==
    (regPc \in {"returned", "raised"} /\ ~AllInFamilies) =>
        /\ regPc = "raised"
        /\ Names(regError, error_classes[FirstBad])
        /\ Names(regError, BaseHTTPErrorName)
        /\ Names(regError, BaseWebSocketErrorName)

\* C4 witness: the call raised on an input with two different foreign types,
\* after a type of a family.
C4_Witness ==
    /\ regPc = "raised"
    /\ error_classes = <<"AuthorizationError", "KeyError", "ValueError">>

\* C5, the state part: on an input whose types all belong to a family, after
\* n iterations the table holds n new entries, the i-th for the i-th input
\* type and bound to a handler of that type's family, no two entries sharing a
\* handler; the call returns with one entry per input element.
C5_OnePerElement ==
    (regPc # "idle" /\ AllInFamilies) =>
        /\ regPc # "raised"
        /\ Len(Added) = regIdx
        /\ \A i \in 1..Len(Added) :
              /\ Added[i].cls = error_classes[i]
              /\ Added[i].handler.kind = ExpectedKind(error_classes[i])
        /\ \A i, j \in 1..Len(Added) : i # j => Added[i].handler # Added[j].handler
        /\ regPc = "returned" => Len(Added) = Len(error_classes)

\* C5, the step part: every step keeps each entry of the table in its place.
C5_AppendOnly ==
    /\ Len(handlers') >= Len(handlers)
    /\ \A i \in 1..Len(handlers) : handlers'[i] = handlers[i]

\* C5: register_errors makes exactly one add_exception_handler call per input
\* element, in input order and without deduplication, each with a freshly
\* built handler of the element's family, and never removes or replaces an
\* entry of the host's table.
C5_RegistersInOrder == []C5_OnePerElement /\ [][C5_AppendOnly]_vars

\* C5 witness: the call returned on an input that lists one type twice and a
\* connection-family type, on a table that already held an entry.
C5_Witness ==
    /\ regPc = "returned"
    /\ error_classes = <<"AuthorizationError", "WSPolicyError", "AuthorizationError">>
    /\ Len(handlers) = 4
    /\ handlers[1] = HostEntry

\* C10: when register_errors has raised, the first foreign type being at
\* position k, the table holds the handlers of the k - 1 types before it, in
\* order, and of no type at position k or later.
C10_NotAtomic ==
    regPc = "raised" =>
        /\ regIdx = FirstBad
        /\ Len(Added) = FirstBad - 1
        /\ \A i \in 1..Len(Added) :
              /\ Added[i].cls = error_classes[i]
              /\ Added[i].handler.kind = ExpectedKind(error_classes[i])

\* C10 witness: the call raised at position 2 of 3, one handler staying
\* registered and the family type after the foreign one not registered.
C10_Witness ==
    /\ regPc = "raised"
    /\ error_classes = <<"AuthorizationError", "ValueError", "WSPolicyError">>
    /\ Len(Added) = 1
    /\ Added[1].cls = "AuthorizationError"

\* ------------------------------------------------------ handle_error (SpecHandle)

\* Handling h runs a handler on an error of the handler's own family.
OwnFamily(h) ==
    /\ handler[h] \in {"http", "ws"}
    /\ IsInstance(error[h], FamilyOf(handler[h]))

\* Handling h runs a handler on an exception outside the handler's family.
Foreign(h) ==
    /\ handler[h] \in {"http", "ws"}
    /\ ~IsInstance(error[h], FamilyOf(handler[h]))

Did(h, step) == \E i \in 1..Len(trace[h]) : trace[h][i] = step

Finished(h) == pc[h] \in {"returned", "raised"}

\* The response the claims give a request-family error of class c built with
\* the keyword arguments k.
ClaimedResponse(c, k) ==
    [body |-> [message |-> <<"string", MessageOf(c)>>,
               context |-> [key \in DOMAIN k |-> JsonOfValue(k[key])]],
     status_code |-> StatusCodeOf(c),
     headers |-> {<<"X-Error-Type", c>>}]

C2_ClosureSignal ==
    \A h \in Handlings :
        (handler[h] = "ws" /\ OwnFamily(h)) =>
            /\ pc[h] # "returned"
            /\ outcome[h].type # "response"
            /\ Did(h, "hook-returned") =>
                  /\ pc[h] = "raised"
                  /\ outcome[h] = [type |-> "WebSocketException",
                                   code |-> CodeOf(error[h].cls),
                                   reason |-> ReasonOf(error[h].cls)]
            /\ outcome[h].type = "WebSocketException" => Did(h, "hook-returned")

\* C2 witness: one closure with a declared reason, one of a class declaring none.
C2_Witness ==
    \E h, g \in Handlings :
        /\ handler[h] = "ws" /\ error[h].cls = "WSPolicyError"
        /\ outcome[h].type = "WebSocketException"
        /\ outcome[h].reason = Some("policy violation")
        /\ handler[g] = "ws" /\ error[g].cls = "WSGoingAway"
        /\ outcome[g].type = "WebSocketException"
        /\ outcome[g].reason = None

\* C3: a handler given an exception outside its family has raised TypeError
\* right after the check: no hook was invoked (and none logged anything), no
\* response was returned and no closure was signalled.
C3_ForeignErrorRaisesTypeError ==
    /\ \A h \in Handlings :
          Foreign(h) =>
              /\ pc[h] = "raised"
              /\ outcome[h].type = "TypeError"
              /\ hookArgs[h] = <<>>
              /\ trace[h] = <<"typecheck", "TypeError">>
    /\ Len(log) = Cardinality({h \in Handlings : OwnFamily(h) /\ HookOf(error[h].cls) = "logs"})

\* C3 witness: each handler was given an error of the other family.
C3_Witness ==
    \E h, g \in Handlings :
        /\ handler[h] = "http" /\ error[h].cls = "WSPolicyError" /\ pc[h] = "raised"
        /\ handler[g] = "ws" /\ error[g].cls = "AuthorizationError" /\ pc[g] = "raised"

\* C7: a handling of a family error goes through type check, hook, terminal
\* action in this order; the hook is invoked exactly once, with the request or
\* connection the handler was given; a response or closure exists only after
\* the hook has returned, and none while the handling waits for the hook.
C7_CheckHookTerminal ==
    \A h \in Handlings :
        OwnFamily(h) =>
            /\ trace[h] \in {<<"typecheck", "hook">>,
                             <<"typecheck", "hook", "hook-returned", "terminal">>,
                             <<"typecheck", "hook", "hook-raised">>}
            /\ request[h] = Some(Conn(h))
            /\ hookArgs[h] = <<Conn(h)>>
            /\ (outcome[h].type \in {"response", "WebSocketException"})
                  => trace[h] = <<"typecheck", "hook", "hook-returned", "terminal">>
            /\ pc[h] = "hook" <=> Len(trace[h]) = 2
            /\ pc[h] = "hook" => outcome[h] = NoOutcome

\* C7 witness: one handling waits on a hook that never completes, with no
\* outcome, while another has gone through all three steps.
C7_Witness ==
    \E h, g \in Handlings :
        /\ OwnFamily(h) /\ HookOf(error[h].cls) = "hangs"
        /\ pc[h] = "hook" /\ outcome[h] = NoOutcome
        /\ OwnFamily(g) /\ pc[g] = "returned"
        /\ trace[g] = <<"typecheck", "hook", "hook-returned", "terminal">>

SoloOutcome(kind, e, r) ==
    IF ~IsInstance(e, FamilyOf(kind))
        THEN TypeError(HandlerTypeErrorMessage(e, FamilyOf(kind)))
    ELSE IF HookOf(e.cls) = "raises" THEN HookError
    ELSE IF kind = "http"
        THEN IF \A key \in DOMAIN e.context : Serializable(e.context[key])
             THEN [type |-> "response", response |-> ClaimedResponse(e.cls, e.context)]
             ELSE TypeError(JsonTypeErrorMessage)
    ELSE [type |-> "WebSocketException", code |-> CodeOf(e.cls), reason |-> ReasonOf(e.cls)]

\* C9, the state part: whatever the other handlings do, a finished handling
\* has the outcome it has alone, its hook was invoked at most once (once for an
\* error of the family), and a handling suspended at its hook can go on exactly
\* when its own hook completes.
C9_Independent ==
    \A h \in Handlings :
        handler[h] \in {"http", "ws"} =>
            /\ Finished(h) => outcome[h] = SoloOutcome(handler[h], error[h], Conn(h))
            /\ Len(hookArgs[h]) = IF OwnFamily(h) THEN 1 ELSE 0
            /\ pc[h] = "hook" =>
                  /\ (ENABLED Resume(h)) <=> HookOf(error[h].cls) \in {"default", "logs"}
                  /\ (ENABLED Fail(h)) <=> HookOf(error[h].cls) = "raises"

\* C9: handlings are independent, and under the event loop's fair scheduling
\* every handling whose hook completes reaches its end, whichever other
\* handlings wait on hooks that never complete.
C9_IndependentHandlings ==
    /\ []C9_Independent
    /\ \A h \in Handlings :
          (pc[h] = "hook" /\ HookOf(error[h].cls) # "hangs") ~> Finished(h)

\* C9 witness: a handling is blocked on a hook that never completes while
\* another, of an error of the family, has reached its terminal action.
C9_Witness ==
    \E h, g \in Handlings :
        /\ h # g
        /\ OwnFamily(h) /\ pc[h] = "hook" /\ HookOf(error[h].cls) = "hangs"
        /\ OwnFamily(g) /\ Did(g, "terminal")

\* ------------------------------------------- the example application (SpecApp)

\* The status the claim gives a request.
C6_Status(rq) ==
    IF rq.token = None THEN 401
    ELSE IF rq.token[1] # "TOKEN" THEN 401
    ELSE IF rq.user = None THEN 400
    ELSE IF ~IsSubstring(<<"u", "s", "e", "r">>, rq.user[1]) THEN 404
    ELSE 200

\* The error context the claim gives a request that fails.
C6_Context(rq) ==
    IF rq.token = None THEN [reason |-> Str("no token")]
    ELSE IF rq.token[1] # "TOKEN" THEN [reason |-> Str("no token"), token |-> Str(rq.token[1])]
    ELSE IF rq.user = None THEN [reason |-> Str("no user")]
    ELSE [user |-> Str(rq.user[1])]

\* r.json() of an error response: the body decoded.
C6_Decoded(body) ==
    [message |-> PyOfJson(body.message),
     context |-> [k \in DOMAIN body.context |-> PyOfJson(body.context[k])]]

\* C6: every request of the example application is answered, by the status and
\* context the decision list gives (authorization first, then the path); no
\* request ends in an exception; an error's body is to_dict() of the error
\* raised, a success's body is {user: <value>}.
C6_ExampleApplication ==
    \A h \in Handlings :
        appReq[h] # None =>
            LET rq == appReq[h][1] IN
            /\ pc[h] \in {"hook", "returned"}
            /\ pc[h] = "hook" => ENABLED Resume(h)
            /\ pc[h] = "returned" =>
                  /\ outcome[h].type = "response"
                  /\ outcome[h].response.status_code = C6_Status(rq)
                  /\ IF C6_Status(rq) = 200
                     THEN outcome[h].response.body = [user |-> <<"string", rq.user[1]>>]
                     ELSE /\ C6_Decoded(outcome[h].response.body).context = C6_Context(rq)
                          /\ C6_Decoded(outcome[h].response.body) = to_dict(error[h])
                          /\ Len(hookArgs[h]) = 1

\* C6 witness: a wrong token on the path without a user is answered 401 with
\* the token in the context, and a valid token on /user-1 is answered 200.
C6_Witness ==
    \E h, g \in Handlings :
        /\ appReq[h] = Some([token |-> Some("?"), user |-> None])
        /\ pc[h] = "returned"
        /\ outcome[h].response.status_code = 401
        /\ outcome[h].response.body.context =
              [reason |-> <<"string", "no token">>, token |-> <<"string", "?">>]
        /\ appReq[g] = Some([token |-> Some("TOKEN"), user |-> Some(<<"u", "s", "e", "r", "-", "1">>)])
        /\ pc[g] = "returned"
        /\ outcome[g].response.status_code = 200

====
